---------------------------- MODULE Spec2Model ----------------------------
(***************************************************************************)
(* Attendance Processor (src/app.py): the report pipeline run by the       *)
(* "GENERATE COMPLETE REPORT" button over the uploaded form exports.       *)
(*                                                                         *)
(* Representation.                                                         *)
(*   - A string is a sequence of one-character strings, so that strip,     *)
(*     lower and the \s+ substitution act character by character.          *)
(*   - A missing cell (float NaN read by pandas) is the value NaN.         *)
(*   - A parsed date-time is a natural number of time slots; SlotsPerDay   *)
(*     slots make one calendar day.  NaT is the result of a failed parse.  *)
(*   - A data frame is a sequence of rows; a row is a function from        *)
(*     column names to cells.                                              *)
(*   - AttendancePercent is held in tenths of a percent (33.3 is 333).     *)
(*   - An uploaded file is named by its upload position.                   *)
(*                                                                         *)
(* The workbook export (ExcelWriter, format_workbook_in_memory) and the    *)
(* Diagnostics checkbox, which only decide how the sheets are written, are *)
(* not part of the model.                                                  *)
(***************************************************************************)
EXTENDS Integers, Sequences, FiniteSets, TLC

\* Bounds of the exploration.
MaxFiles == 2
MaxRows == 3
SlotsPerDay == 2

NaN == <<"NaN">>
NaT == -1
\* A time cell holding text that is no date-time.
JunkTime == -2
\* None, for a column that was not detected.
None == ""

-----------------------------------------------------------------------------
(* Strings *)

IsSpace(c) == c \in {" ", "\t"}

LowerChar(c) ==
  CASE c = "D" -> "d" [] c = "E" -> "e" [] c = "J" -> "j" [] c = "K" -> "k"
    [] c = "N" -> "n" [] c = "O" -> "o" [] c = "X" -> "x" [] OTHER -> c

Ord(c) ==
  CASE c = "\t" -> 9 [] c = " " -> 32 [] c = "@" -> 64
    [] c = "D" -> 68 [] c = "E" -> 69 [] c = "J" -> 74 [] c = "K" -> 75
    [] c = "N" -> 78 [] c = "O" -> 79 [] c = "X" -> 88 [] c = "a" -> 97
    [] c = "d" -> 100 [] c = "e" -> 101
    [] c = "j" -> 106 [] c = "k" -> 107 [] c = "n" -> 110 [] c = "o" -> 111
    [] c = "x" -> 120 [] OTHER -> 0

Lower(s) == [i \in 1..Len(s) |-> LowerChar(s[i])]

RECURSIVE LStrip(_)
LStrip(s) == IF s # <<>> /\ IsSpace(Head(s)) THEN LStrip(Tail(s)) ELSE s

RECURSIVE RStrip(_)
RStrip(s) ==
  IF s # <<>> /\ IsSpace(s[Len(s)]) THEN RStrip(SubSeq(s, 1, Len(s) - 1)) ELSE s

Strip(s) == RStrip(LStrip(s))

\* Variant of CollapseSpaces: a pattern that matches nothing, so that runs of
\* whitespace stay as they are (C5 must tell it apart).
CollapseSpaces_NoMatch(s) == s

\* re.sub(r"\s+", " ", s)
RECURSIVE CollapseSpaces(_)
CollapseSpaces(s) ==
  IF s = <<>> THEN <<>>
  ELSE IF IsSpace(Head(s)) THEN <<" ">> \o CollapseSpaces(LStrip(s))
  ELSE <<Head(s)>> \o CollapseSpaces(Tail(s))

\* str(value) / .astype(str)
Str(value) == IF value = NaN THEN <<"n", "a", "n">> ELSE value

isna(value) == value = NaN

clean_name(value) ==
  IF isna(value) \/ Strip(Str(value)) = <<>> THEN <<>>
  ELSE CollapseSpaces(Strip(Str(value)))

normalize_key(value) ==
  IF isna(value) THEN <<>>
  ELSE CollapseSpaces(Lower(Strip(Str(value))))

\* Python's ordering of str: lexicographic by code point.
RECURSIVE StrLess(_, _)
StrLess(a, b) ==
  IF b = <<>> THEN FALSE
  ELSE IF a = <<>> THEN TRUE
  ELSE IF Ord(Head(a)) # Ord(Head(b)) THEN Ord(Head(a)) < Ord(Head(b))
  ELSE StrLess(Tail(a), Tail(b))

-----------------------------------------------------------------------------
(* Sequences *)

Has(cols, c) == \E i \in 1..Len(cols) : cols[i] = c

\* A stable sort: rows that compare equal keep their input order.  less[i, j]
\* says whether row i sorts before row j.
StableSort(rows, less) ==
  LET n == Len(rows)
      Before(j, i) == less[j, i] \/ (~less[i, j] /\ j < i)
      Pos(i) == 1 + Cardinality({j \in 1..n : Before(j, i)})
  IN  [p \in 1..n |-> rows[CHOOSE i \in 1..n : Pos(i) = p]]

RECURSIVE Flatten(_)
Flatten(seqs) == IF seqs = <<>> THEN <<>> ELSE Head(seqs) \o Flatten(Tail(seqs))

-----------------------------------------------------------------------------
(* standardize_columns *)

name_candidates ==
  << "Full Name", "Name", "Student Name", "Respondent", "Name (First Last)",
     "Your Name", "Name1", "Name2" >>

PreviewCols == 12

\* next((c for c in name_candidates if c in df.columns), None)
RECURSIVE FirstPresent(_, _)
FirstPresent(cands, cols) ==
  IF cands = <<>> THEN None
  ELSE IF Has(cols, Head(cands)) THEN Head(cands)
  ELSE FirstPresent(Tail(cands), cols)

StdRow(t, e, n, k) ==
  ("Start time" :> t) @@ [Email |-> e, DisplayName |-> n, StudentKey |-> k]

ValueError(kind, filename) == [kind |-> kind, file |-> filename]

\* The frame's Email column after .astype(str).str.strip().str.lower() and the
\* blanking of "nan" / "none".
EmailCell(value) ==
  LET e == Lower(Strip(Str(value)))
  IN  IF e \in {<<"n", "a", "n">>, <<"n", "o", "n", "e">>} THEN <<>> ELSE e

\* The StudentKey of one row of a file that has an email column.
KeyWithEmail(email, display_name, allow_name_fallback) ==
  IF allow_name_fallback
  THEN IF normalize_key(email) # <<>> THEN normalize_key(email)
       ELSE normalize_key(display_name)
  ELSE normalize_key(email)

\* The StudentKey of one row of a file that has no email column.
KeyWithoutEmail(display_name) == normalize_key(display_name)

\* Variant of EmailColumnRequired: a file without an email column is keyed by
\* name whatever the checkbox says (C4 must tell it apart).
EmailColumnRequired_Never(detected_email, allow_name_fallback) == FALSE

\* Whether a file without an email column is refused.
EmailColumnRequired(detected_email, allow_name_fallback) ==
  detected_email = None /\ ~allow_name_fallback

\* Variant of KeysUsable: the check for blank keys left out (C3 must tell it
\* apart).
KeysUsable_Unchecked(frame) == TRUE

\* Whether the file passes the check that no StudentKey is blank.
KeysUsable(frame) == \A i \in 1..Len(frame) : Len(frame[i].StudentKey) # 0

standardize_columns(temp_df, allow_name_fallback, filename) ==
  LET cols == temp_df.columns
      detected_time ==
        IF Has(cols, "Start time") THEN "Start time"
        ELSE IF Has(cols, "Timestamp") THEN "Timestamp" ELSE None
      detected_email ==
        IF Has(cols, "Email") THEN "Email"
        ELSE IF Has(cols, "Email Address") THEN "Email Address" ELSE None
      detected_name == FirstPresent(name_candidates, cols)
      DisplayName(r) ==
        IF detected_name # None THEN clean_name(r[detected_name]) ELSE <<>>
      Email(r) ==
        IF detected_email # None THEN EmailCell(r[detected_email]) ELSE <<>>
      StudentKey(r) ==
        IF detected_email # None
        THEN KeyWithEmail(Email(r), DisplayName(r), allow_name_fallback)
        ELSE KeyWithoutEmail(DisplayName(r))
      used_identifier ==
        IF detected_email # None
        THEN IF allow_name_fallback THEN "Email (fallback to Name if blank)"
             ELSE "Email"
        ELSE "Name (fallback; no Email column)"
      frame ==
        [i \in 1..Len(temp_df.rows) |->
           LET r == temp_df.rows[i]
           IN  StdRow(r[detected_time], Email(r), DisplayName(r), StudentKey(r))]
      NotFound(c) == IF c = None THEN "NOT FOUND" ELSE c
      report ==
        [File |-> filename,
         DetectedTimeColumn |-> NotFound(detected_time),
         DetectedEmailColumn |-> NotFound(detected_email),
         DetectedNameColumn |-> NotFound(detected_name),
         IdentifierUsed |-> used_identifier,
         ColumnsInFile |->
           [shown |-> SubSeq(cols, 1, IF Len(cols) > PreviewCols
                                      THEN PreviewCols ELSE Len(cols)),
            ellipsis |-> Len(cols) > PreviewCols]]
      Raise(kind) ==
        [ok |-> FALSE, error |-> ValueError(kind, filename),
         df |-> <<>>, report |-> <<>>]
  IN  IF detected_time = None THEN Raise("Missing timestamp column")
      ELSE IF EmailColumnRequired(detected_email, allow_name_fallback)
      THEN Raise("Missing email column")
      ELSE IF ~KeysUsable(frame) THEN Raise("Some rows have no usable identifier")
      ELSE [ok |-> TRUE, error |-> <<>>, df |-> frame, report |-> report]

-----------------------------------------------------------------------------
(* The report: combining, parsing, deduplicating *)

\* Variant of to_datetime: a cell that is no date-time is kept as it is
\* instead of becoming NaT (C8 must tell it apart).
to_datetime_KeepingText(cell) == cell

\* pd.to_datetime(..., errors="coerce")
to_datetime(cell) == IF cell >= 0 THEN cell ELSE NaT

\* .dt.normalize(): the date-time cut to its calendar day.
normalize(t) == t - (t % SlotsPerDay)

\* pd.concat of the standardized frames, the parsed time, the rows without one
\* dropped, the class date and the fields normalized once more.
ParseAndNormalize(all_dfs) ==
  LET combined == Flatten(all_dfs)
      parsed == SelectSeq(combined, LAMBDA r : to_datetime(r["Start time"]) # NaT)
  IN  [i \in 1..Len(parsed) |->
         LET r == parsed[i]
             t == to_datetime(r["Start time"])
         IN  ("Start time" :> r["Start time"]) @@
             [SubmissionDateTime_ET |-> t,
              ClassDate |-> normalize(t),
              StudentKey |-> Lower(Strip(Str(r.StudentKey))),
              Email |-> Lower(Strip(Str(r.Email))),
              DisplayName |-> clean_name(r.DisplayName)]]

\* Variant of DailyLess: the submission time left out of the sort keys (C2
\* must tell it apart).
DailyLess_IgnoringTime(a, b) ==
  IF a.ClassDate # b.ClassDate THEN a.ClassDate < b.ClassDate
  ELSE StrLess(a.StudentKey, b.StudentKey)

\* The order of sort_values(["ClassDate", "StudentKey", "SubmissionDateTime_ET"]).
DailyLess(a, b) ==
  IF a.ClassDate # b.ClassDate THEN a.ClassDate < b.ClassDate
  ELSE IF a.StudentKey # b.StudentKey THEN StrLess(a.StudentKey, b.StudentKey)
  ELSE a.SubmissionDateTime_ET < b.SubmissionDateTime_ET

SameDayAndStudent(a, b) ==
  a.ClassDate = b.ClassDate /\ a.StudentKey = b.StudentKey

\* The rows whose position is in keep, in their order.
RECURSIVE RowsAt(_, _, _)
RowsAt(rows, keep, i) ==
  IF i > Len(rows) THEN <<>>
  ELSE (IF i \in keep THEN <<rows[i]>> ELSE <<>>) \o RowsAt(rows, keep, i + 1)

\* Variant of DropDuplicatesKeepFirst: the duplicated() mask not negated, so
\* that the repeats are kept and the first entries dropped (C9 must tell it
\* apart).
DropDuplicates_KeepingRepeats(rows) ==
  RowsAt(rows,
         {i \in 1..Len(rows) :
            \E j \in 1..(i - 1) : SameDayAndStudent(rows[j], rows[i])},
         1)

\* drop_duplicates(subset=["ClassDate", "StudentKey"], keep="first")
DropDuplicatesKeepFirst(rows) ==
  RowsAt(rows,
         {i \in 1..Len(rows) :
            ~\E j \in 1..(i - 1) : SameDayAndStudent(rows[j], rows[i])},
         1)

\* The Deduplicator: first entry per student per day.
Deduplicate(frame) ==
  DropDuplicatesKeepFirst(
    StableSort(frame, [i, j \in 1..Len(frame) |-> DailyLess(frame[i], frame[j])]))

-----------------------------------------------------------------------------
(* The report: the sheets *)

Column(rows, c) == [i \in 1..Len(rows) |-> rows[i][c]]

Values(seq) == {seq[i] : i \in 1..Len(seq)}

\* The distinct values of a sequence, in the order of their first appearance.
Unique(seq) ==
  RowsAt(seq, {i \in 1..Len(seq) : ~\E j \in 1..(i - 1) : seq[j] = seq[i]}, 1)

Unknown == <<"U", "n", "k", "n", "o", "w", "n">>

\* value_counts().idxmax() over the non-blank values: the most frequent one,
\* and among equally frequent ones the one that appears first.
mode_nonblank(series, default) ==
  LET filled == [i \in 1..Len(series) |->
                   IF isna(series[i]) THEN <<>> ELSE Str(series[i])]
      s == SelectSeq(filled, LAMBDA v : Strip(v) # <<>>)
      Count(v) == Cardinality({i \in 1..Len(s) : s[i] = v})
      best == CHOOSE i \in 1..Len(s) :
                /\ \A j \in 1..Len(s) : Count(s[j]) <= Count(s[i])
                /\ \A j \in 1..(i - 1) : Count(s[j]) < Count(s[i])
  IN  IF s = <<>> THEN default ELSE s[best]

\* daily.groupby("StudentKey"): the rows of one student.
Group(daily, key) == SelectSeq(daily, LAMBDA r : r.StudentKey = key)

\* The group keys, sorted as groupby sorts them.
GroupKeys(daily) ==
  LET keys == Unique(Column(daily, "StudentKey"))
  IN  StableSort(keys, [i, j \in 1..Len(keys) |-> StrLess(keys[i], keys[j])])

name_map(daily, key) == mode_nonblank(Column(Group(daily, key), "DisplayName"), Unknown)

email_map(daily, key) == mode_nonblank(Column(Group(daily, key), "Email"), <<>>)

\* Variant of total_days: nunique of the wrong column (C7 must tell it apart).
total_days_OfStudentKey(daily) == Cardinality(Values(Column(daily, "StudentKey")))

total_days(daily) == Cardinality(Values(Column(daily, "ClassDate")))

Max(S) == CHOOSE x \in S : \A y \in S : y <= x

\* round(num / den, 0) in integers, a tie going to the even neighbour as
\* numpy's round does.
RoundHalfEven(num, den) ==
  LET q == num \div den
      r == num % den
  IN  IF 2 * r < den THEN q
      ELSE IF 2 * r > den THEN q + 1
      ELSE IF q % 2 = 0 THEN q ELSE q + 1

\* (DaysPresent / total_days * 100).round(1), in tenths of a percent.
AttendancePercent(days_present, total) == RoundHalfEven(days_present * 1000, total)

StudentSummary(daily) ==
  LET keys == GroupKeys(daily)
  IN  [i \in 1..Len(keys) |->
         LET dates == Values(Column(Group(daily, keys[i]), "ClassDate"))
         IN  [DisplayName |-> name_map(daily, keys[i]),
              Email |-> email_map(daily, keys[i]),
              DaysPresent |-> Cardinality(dates),
              TotalClassDays |-> total_days(daily),
              AttendancePercent |->
                AttendancePercent(Cardinality(dates), total_days(daily)),
              LastSeen |-> Max(dates)]]

\* One sheet row of a daily record, with the student's mapped name and email.
SheetRow(daily, r) ==
  [ClassDate |-> r.ClassDate,
   Email |-> email_map(daily, r.StudentKey),
   DisplayName |-> name_map(daily, r.StudentKey),
   SubmissionDateTime_ET |-> r.SubmissionDateTime_ET]

DailyAttendance(daily) == [i \in 1..Len(daily) |-> SheetRow(daily, daily[i])]

\* Variant of PerDay: nunique of the wrong column (C6 must tell it apart).
PerDay_OfClassDate(daily) ==
  LET found == Unique(Column(daily, "ClassDate"))
      dates == StableSort(found, [i, j \in 1..Len(found) |-> found[i] < found[j]])
  IN  [i \in 1..Len(dates) |->
         [ClassDate |-> dates[i],
          PresentCount |->
            Cardinality({r.ClassDate : r \in
               {x \in Values(daily) : x.ClassDate = dates[i]}})]]

\* daily.groupby("ClassDate").agg(PresentCount=("StudentKey", "nunique"))
PerDay(daily) ==
  LET found == Unique(Column(daily, "ClassDate"))
      dates == StableSort(found, [i, j \in 1..Len(found) |-> found[i] < found[j]])
  IN  [i \in 1..Len(dates) |->
         [ClassDate |-> dates[i],
          PresentCount |->
            Cardinality({r.StudentKey : r \in
               {x \in Values(daily) : x.ClassDate = dates[i]}})]]

\* daily.sort_values("ClassDate").drop_duplicates(subset="StudentKey", keep="last")
MostRecent(daily) ==
  LET sorted == StableSort(daily, [i, j \in 1..Len(daily) |->
                                    daily[i].ClassDate < daily[j].ClassDate])
  IN  RowsAt(sorted,
             {i \in 1..Len(sorted) :
                ~\E j \in (i + 1)..Len(sorted) :
                   sorted[j].StudentKey = sorted[i].StudentKey},
             1)

MostRecentSheet(daily) ==
  LET most_recent == MostRecent(daily)
  IN  [i \in 1..Len(most_recent) |-> SheetRow(daily, most_recent[i])]

\* The column two frames are merged on.
MergeColumn == "Email"

StatusRow(left, days_present, total_class_days, attendance_percent) ==
  [ClassDate |-> left.ClassDate,
   Email |-> left.Email,
   DisplayName |-> left.DisplayName,
   SubmissionDateTime_ET |-> left.SubmissionDateTime_ET,
   DaysPresent |-> days_present,
   TotalClassDays |-> total_class_days,
   AttendancePercent |-> attendance_percent]

\* left.merge(right, on=..., how="left"): every left row, in order, once for
\* each right row with the same value in the merge column; once, with nothing
\* from the right, when there is none.
MergeLeft(left, right) ==
  Flatten([i \in 1..Len(left) |->
     LET matches == SelectSeq(right,
                      LAMBDA s : s[MergeColumn] = left[i][MergeColumn])
     IN  IF matches = <<>> THEN <<StatusRow(left[i], NaN, NaN, NaN)>>
         ELSE [j \in 1..Len(matches) |->
                 StatusRow(left[i], matches[j].DaysPresent,
                           matches[j].TotalClassDays,
                           matches[j].AttendancePercent)]])

StatusReport(most_recent_sheet, student_summary) ==
  LET merged == MergeLeft(most_recent_sheet, student_summary)
  IN  StableSort(merged, [i, j \in 1..Len(merged) |->
                            merged[i].ClassDate > merged[j].ClassDate])

-----------------------------------------------------------------------------
(* The app *)

VARIABLES
  allow_name_fallback,   \* the "Allow name fallback" checkbox
  uploaded_files,        \* the uploader's files, in upload order
  outcome,               \* "none", "success" (st.success) or "error" (st.error)
  error,                 \* the error shown, <<>> when none
  diag_df,               \* the detection report, one row per file
  df,                    \* the combined frame handed to the deduplication
  daily,                 \* the deduplicated frame
  student_summary,
  daily_attendance,
  per_day,
  most_recent_sheet,
  status_report

vars ==
  << allow_name_fallback, uploaded_files, outcome, error, diag_df, df, daily,
     student_summary, daily_attendance, per_day, most_recent_sheet,
     status_report >>

sheets ==
  << daily, student_summary, daily_attendance, per_day, most_recent_sheet,
     status_report >>

\* No file is named by an error raised after the per-file loop.
NoFile == 0

\* pd.read_excel(f)
read_excel(f) == [columns |-> f.columns, rows |-> f.rows]

Min(S) == CHOOSE x \in S : \A y \in S : x <= y

Failed(err, diag, frame) ==
  [outcome |-> "error", error |-> err, diag_df |-> diag, df |-> frame,
   daily |-> <<>>, student_summary |-> <<>>, daily_attendance |-> <<>>,
   per_day |-> <<>>, most_recent_sheet |-> <<>>, status_report |-> <<>>]

\* The body of the button's try block, up to the sheets that are exported.
Report(files, fallback) ==
  LET std == [i \in 1..Len(files) |->
                standardize_columns(read_excel(files[i]), fallback, files[i].name)]
      bad == {i \in 1..Len(files) : ~std[i].ok}
      file_reports == [i \in 1..Len(files) |-> std[i].report]
      frame == ParseAndNormalize([i \in 1..Len(files) |-> std[i].df])
      dedup == Deduplicate(frame)
      summary == StudentSummary(dedup)
      recent == MostRecentSheet(dedup)
  IN  IF bad # {} THEN Failed(std[Min(bad)].error, <<>>, <<>>)
      ELSE IF frame = <<>>
      THEN Failed(ValueError("No valid attendance records found", NoFile),
                  file_reports, frame)
      ELSE IF total_days(dedup) = 0
      THEN Failed(ValueError("No class days detected", NoFile),
                  file_reports, frame)
      ELSE [outcome |-> "success", error |-> <<>>, diag_df |-> file_reports,
            df |-> frame, daily |-> dedup, student_summary |-> summary,
            daily_attendance |-> DailyAttendance(dedup),
            per_day |-> PerDay(dedup), most_recent_sheet |-> recent,
            status_report |-> StatusReport(recent, summary)]

Nothing ==
  /\ outcome = "none" /\ error = <<>> /\ diag_df = <<>> /\ df = <<>>
  /\ daily = <<>> /\ student_summary = <<>> /\ daily_attendance = <<>>
  /\ per_day = <<>> /\ most_recent_sheet = <<>> /\ status_report = <<>>

\* A rerun of the script without the button pressed shows no report.
Rerun ==
  /\ outcome' = "none" /\ error' = <<>> /\ diag_df' = <<>> /\ df' = <<>>
  /\ daily' = <<>> /\ student_summary' = <<>> /\ daily_attendance' = <<>>
  /\ per_day' = <<>> /\ most_recent_sheet' = <<>> /\ status_report' = <<>>

Init ==
  /\ allow_name_fallback = FALSE
  /\ uploaded_files = <<>>
  /\ Nothing

ToggleFallback ==
  /\ allow_name_fallback' = ~allow_name_fallback
  /\ UNCHANGED uploaded_files
  /\ Rerun

RowCount(files) == Len(Flatten([i \in 1..Len(files) |-> files[i].rows]))

AddFile(columns, rows) ==
  /\ Len(uploaded_files) < MaxFiles
  /\ uploaded_files' =
       Append(uploaded_files,
              [name |-> Len(uploaded_files) + 1, columns |-> columns, rows |-> rows])
  /\ UNCHANGED allow_name_fallback
  /\ Rerun

Generate ==
  /\ uploaded_files # <<>>
  /\ \E run \in {Report(uploaded_files, allow_name_fallback)} :
         /\ outcome' = run.outcome
         /\ error' = run.error
         /\ diag_df' = run.diag_df
         /\ df' = run.df
         /\ daily' = run.daily
         /\ student_summary' = run.student_summary
         /\ daily_attendance' = run.daily_attendance
         /\ per_day' = run.per_day
         /\ most_recent_sheet' = run.most_recent_sheet
         /\ status_report' = run.status_report
  /\ UNCHANGED << allow_name_fallback, uploaded_files >>

-----------------------------------------------------------------------------
(* The exports that are uploaded *)

Row3(c1, v1, c2, v2, c3, v3) == (c1 :> v1) @@ (c2 :> v2) @@ (c3 :> v3)

\* Form exports with clean identities and varied submission times: two slots
\* of the first day, one of the second, one of the third, and a cell that is
\* no date-time.
FormTimes == {0, 1, SlotsPerDay, 2 * SlotsPerDay, JunkTime}

FormStudents ==
  { [Email |-> <<"j", "@", "x">>, Name |-> <<"J">>],
    [Email |-> NaN, Name |-> <<"K">>] }

FormColumns == <<"Start time", "Email", "Name">>

FormRows ==
  { Row3("Start time", t, "Email", who.Email, "Name", who.Name) :
      t \in FormTimes, who \in FormStudents }

UploadForm ==
  \E n \in 1..(MaxRows - RowCount(uploaded_files)) :
    \E rows \in [1..n -> FormRows] : AddFile(FormColumns, rows)

Next == UploadForm \/ ToggleFallback \/ Generate

Spec == Init /\ [][Next]_vars

\* Single-row exports of the four column layouts, with noisy identity cells
\* and one submission time.  The texts are ones pd.read_excel keeps as text
\* (it reads an empty cell, and a few spellings such as "nan", as NaN).
NoisyEmails ==
  { <<" ", "J", "@", "X", "\t">>, <<"j", "@", "x">>, <<"N", "O", "N", "E">>, NaN }

NoisyNames ==
  { <<"J", " ", "\t", "D">>, <<"j", " ", "d">>, <<"k">>, <<"n", "o", "n", "e">>, NaN }

MicrosoftColumns == <<"Start time", "Email", "Name">>
GoogleColumns == <<"Timestamp", "Email Address", "Full Name">>
NoEmailColumns == <<"Start time", "Name">>
NoTimeColumns == <<"Name">>

NoisyExports ==
  { [columns |-> MicrosoftColumns,
     row |-> Row3("Start time", 0, "Email", e, "Name", n)] :
      e \in NoisyEmails, n \in NoisyNames }
  \cup
  { [columns |-> GoogleColumns,
     row |-> Row3("Timestamp", 0, "Email Address", e, "Full Name", n)] :
      e \in NoisyEmails, n \in NoisyNames }
  \cup
  { [columns |-> NoEmailColumns, row |-> ("Start time" :> 0) @@ ("Name" :> n)] :
      n \in NoisyNames }
  \cup
  { [columns |-> NoTimeColumns, row |-> ("Name" :> n)] : n \in NoisyNames }

UploadExport == \E f \in NoisyExports : AddFile(f.columns, <<f.row>>)

NextIdentity == UploadExport \/ ToggleFallback \/ Generate

SpecIdentity == Init /\ [][NextIdentity]_vars

-----------------------------------------------------------------------------
(* Properties: what they speak about *)

\* The rows of the uploaded files, in upload order, each with its file.
RawRows ==
  Flatten([i \in 1..Len(uploaded_files) |->
             [j \in 1..Len(uploaded_files[i].rows) |->
                [file |-> uploaded_files[i].name,
                 columns |-> uploaded_files[i].columns,
                 row |-> uploaded_files[i].rows[j]]]])

EmailColumnOf(columns) ==
  IF Has(columns, "Email") THEN "Email"
  ELSE IF Has(columns, "Email Address") THEN "Email Address" ELSE None

TimeColumnOf(columns) ==
  IF Has(columns, "Start time") THEN "Start time"
  ELSE IF Has(columns, "Timestamp") THEN "Timestamp" ELSE None

NameColumnOf(columns) == FirstPresent(name_candidates, columns)

\* Two characters that are the same letter in either case.
SameLetter(c, d) ==
  \/ c = d
  \/ {c, d} \in {{"D", "d"}, {"E", "e"}, {"J", "j"}, {"K", "k"}, {"N", "n"},
                  {"O", "o"}, {"X", "x"}}

\* The words of a text: its maximal runs of characters that are no whitespace.
RECURSIVE WordsOf(_)
WordsOf(s) ==
  IF s = <<>> THEN <<>>
  ELSE IF IsSpace(Head(s)) THEN WordsOf(Tail(s))
  ELSE LET n == CHOOSE k \in 1..Len(s) :
                  /\ \A i \in 1..k : ~IsSpace(s[i])
                  /\ (k = Len(s) \/ IsSpace(s[k + 1]))
       IN  <<SubSeq(s, 1, n)>> \o WordsOf(SubSeq(s, n + 1, Len(s)))

SameWord(v, w) ==
  Len(v) = Len(w) /\ \A i \in 1..Len(v) : SameLetter(v[i], w[i])

\* Two texts that differ only in letter case and in whitespace around and
\* between their words.
SameText(s, t) ==
  LET v == WordsOf(s)
      w == WordsOf(t)
  IN  Len(v) = Len(w) /\ \A i \in 1..Len(v) : SameWord(v[i], w[i])

IsBlankText(v) == v = NaN \/ WordsOf(v) = <<>>

\* The literal strings "nan" and "none", in any case.
IsNanLiteral(v) ==
  /\ v # NaN
  /\ \/ SameText(v, <<"n", "a", "n">>)
     \/ SameText(v, <<"n", "o", "n", "e">>)

EmailOf(r) ==
  IF EmailColumnOf(r.columns) = None THEN NaN ELSE r.row[EmailColumnOf(r.columns)]

NameOf(r) ==
  IF NameColumnOf(r.columns) = None THEN NaN ELSE r.row[NameColumnOf(r.columns)]

\* The code's notion of an identity value that yields a key.
UsableEmail(r) == ~IsBlankText(EmailOf(r)) /\ ~IsNanLiteral(EmailOf(r))
UsableName(r) == ~IsBlankText(NameOf(r))
RowHasIdentity(r) == UsableEmail(r) \/ (allow_name_fallback /\ UsableName(r))

AllSheetsEmpty == \A i \in 1..Len(sheets) : sheets[i] = <<>>

StudentKeys == Values(Column(daily, "StudentKey"))

-----------------------------------------------------------------------------
(* Properties *)

\* The row the status report owes the student with the given key: the
\* student's most recent daily record, with the student's own counts.
ExpectedStatusRow(key) ==
  LET g == Group(daily, key)
      dates == Values(Column(g, "ClassDate"))
      last == CHOOSE r \in Values(g) : r.ClassDate = Max(dates)
  IN  [ClassDate |-> last.ClassDate,
       Email |-> email_map(daily, key),
       DisplayName |-> name_map(daily, key),
       SubmissionDateTime_ET |-> last.SubmissionDateTime_ET,
       DaysPresent |-> Cardinality(dates),
       TotalClassDays |-> Cardinality(Values(Column(daily, "ClassDate"))),
       AttendancePercent |->
         AttendancePercent(Cardinality(dates),
                           Cardinality(Values(Column(daily, "ClassDate"))))]

\* C1: after a successful run the status report has exactly one row per
\* distinct StudentKey, and that row carries the DaysPresent, TotalClassDays
\* and AttendancePercent of that same student, also when several students have
\* the same (blank) resolved email.
C1_StatusReportOneRowPerStudent ==
  outcome = "success" =>
    /\ Len(status_report) = Cardinality(StudentKeys)
    /\ \A k \in StudentKeys :
         Cardinality({i \in 1..Len(status_report) :
                        status_report[i] = ExpectedStatusRow(k)}) = 1

\* C3: no record with a blank StudentKey reaches the deduplication: every
\* row of the combined and of the deduplicated frame has a key, and a run
\* over a file with a row that has no identity is refused at that file, before
\* any frame is combined.
C3_NoBlankKeyReachesDedup ==
  /\ \A i \in 1..Len(df) : df[i].StudentKey # <<>>
  /\ \A i \in 1..Len(daily) : daily[i].StudentKey # <<>>
  /\ outcome # "none" =>
       \A r \in Values(RawRows) :
         ~RowHasIdentity(r) =>
           /\ outcome = "error"
           /\ error.file \in 1..r.file
           /\ df = <<>>
           /\ AllSheetsEmpty

\* C3 witness: with name fallback on, the second file's row has neither an
\* email nor a name, and the run is refused at that file.
C3_Witness ==
  /\ outcome = "error"
  /\ allow_name_fallback
  /\ error.kind = "Some rows have no usable identifier"
  /\ error.file = 2
  /\ \E i \in 1..Len(RawRows) : ~RowHasIdentity(RawRows[i])

FileStandardizes(i) ==
  standardize_columns(read_excel(uploaded_files[i]), allow_name_fallback,
                      uploaded_files[i].name).ok

\* C4: without name fallback, a run over files one of which has neither an
\* Email nor an Email Address column fails and produces no sheet; the error
\* names that file whenever every other file is valid, at any position.
C4_MissingEmailColumnFailsRun ==
  (outcome # "none" /\ ~allow_name_fallback) =>
    \A i \in 1..Len(uploaded_files) :
      EmailColumnOf(uploaded_files[i].columns) = None =>
        /\ outcome = "error"
        /\ AllSheetsEmpty
        /\ error.file \in 1..uploaded_files[i].name
        /\ (\A j \in 1..Len(uploaded_files) : j # i => FileStandardizes(j))
             => error.file = uploaded_files[i].name

\* C4 witness: the file without an email column is the second of two, the
\* first is valid, and the error names the second.
C4_Witness ==
  /\ outcome = "error"
  /\ ~allow_name_fallback
  /\ Len(uploaded_files) = 2
  /\ FileStandardizes(1)
  /\ uploaded_files[2].columns = NoEmailColumns
  /\ error = ValueError("Missing email column", 2)
  /\ AllSheetsEmpty

\* The row's identity is its email / its name (the email being blank).
EmailIsIdentity(r) == UsableEmail(r)
NameIsIdentity(r) == ~UsableEmail(r) /\ allow_name_fallback /\ UsableName(r)

\* C5: two rows whose emails differ only in letter case and whitespace have
\* the same StudentKey, whatever the column layout of their files; under name
\* fallback so have two rows with blank emails whose names differ only so;
\* and the summary has one row per distinct key.
C5_SameIdentitySameKey ==
  outcome = "success" =>
    /\ Len(df) = Len(RawRows)
    /\ Len(student_summary) = Cardinality(Values(Column(df, "StudentKey")))
    /\ \A raw \in {RawRows} : \A a, b \in 1..Len(raw) :
         ( \/ /\ EmailIsIdentity(raw[a]) /\ EmailIsIdentity(raw[b])
              /\ SameText(EmailOf(raw[a]), EmailOf(raw[b]))
           \/ /\ NameIsIdentity(raw[a]) /\ NameIsIdentity(raw[b])
              /\ SameText(NameOf(raw[a]), NameOf(raw[b])) )
         => df[a].StudentKey = df[b].StudentKey

\* C5 witness: a Microsoft export with the email " J@X<tab>" and a Google
\* export with "j@x" make one student.
C5_Witness ==
  /\ outcome = "success"
  /\ Len(uploaded_files) = 2
  /\ uploaded_files[1].columns = MicrosoftColumns
  /\ uploaded_files[2].columns = GoogleColumns
  /\ EmailOf(RawRows[1]) = <<" ", "J", "@", "X", "\t">>
  /\ EmailOf(RawRows[2]) = <<"j", "@", "x">>
  /\ Len(student_summary) = 1
  /\ student_summary[1].DaysPresent = 1

\* An identity value that yields a key when "nan" and "none" count as blank
\* for either source.
KeyYielding(v) == ~IsBlankText(v) /\ ~IsNanLiteral(v)

\* C10: every key is trimmed, lower-cased and has its whitespace collapsed,
\* and a row whose only identity value, email or (under name fallback) name,
\* is blank or the literal "nan" / "none" is rejected.
C10_NanLiteralIsNoIdentity ==
  /\ \A i \in 1..Len(df) :
       LET k == df[i].StudentKey
       IN  /\ k = Strip(k)
           /\ \A j \in 1..Len(k) :
                /\ LowerChar(k[j]) = k[j]
                /\ IsSpace(k[j]) => (k[j] = " " /\ ~IsSpace(k[j + 1]))
  /\ outcome # "none" =>
       \A r \in Values(RawRows) :
         ( /\ ~KeyYielding(EmailOf(r))
           /\ ~(allow_name_fallback /\ KeyYielding(NameOf(r))) )
         => outcome = "error"

IsDateTime(cell) == cell \in Nat

TimeOf(r) == r.row[TimeColumnOf(r.columns)]

\* The raw rows whose time cell is a date-time, in upload order.
ParseableRows == SelectSeq(RawRows, LAMBDA r : IsDateTime(TimeOf(r)))

\* C2: after deduplication there is at most one daily record per class date
\* and StudentKey; it is one of the combined rows, and none of the combined
\* rows of that student on that day is earlier.
C2_DailyIsEarliestPerStudentDay ==
  outcome = "success" =>
    /\ \A i, j \in 1..Len(daily) :
         (daily[i].ClassDate = daily[j].ClassDate
            /\ daily[i].StudentKey = daily[j].StudentKey) => i = j
    /\ \A j \in 1..Len(daily) : \E i \in 1..Len(df) : df[i] = daily[j]
    /\ \A i \in 1..Len(df) : \E j \in 1..Len(daily) :
         /\ daily[j].ClassDate = df[i].ClassDate
         /\ daily[j].StudentKey = df[i].StudentKey
         /\ daily[j].SubmissionDateTime_ET <= df[i].SubmissionDateTime_ET

\* C2 witness: three submissions of one student on one day, the earliest
\* uploaded second, collapse to the earliest.
C2_Witness ==
  /\ outcome = "success"
  /\ Column(df, "SubmissionDateTime_ET") = <<1, 0, 1>>
  /\ Cardinality(Values(Column(df, "StudentKey"))) = 1
  /\ Column(daily, "SubmissionDateTime_ET") = <<0>>

\* C6: Per_Day_Counts has exactly one row per class date of the daily
\* records, and its PresentCount is the number of Daily_Attendance rows, and
\* of distinct StudentKeys, of that date.
C6_PerDayCountsMatchDaily ==
  outcome = "success" =>
    /\ Len(per_day) = Cardinality(Values(Column(daily, "ClassDate")))
    /\ Values(Column(per_day, "ClassDate")) = Values(Column(daily, "ClassDate"))
    /\ \A i \in 1..Len(per_day) :
         /\ per_day[i].PresentCount =
              Cardinality({j \in 1..Len(daily_attendance) :
                 daily_attendance[j].ClassDate = per_day[i].ClassDate})
         /\ per_day[i].PresentCount =
              Cardinality({daily[j].StudentKey : j \in
                 {m \in 1..Len(daily) : daily[m].ClassDate = per_day[i].ClassDate}})

\* C6 witness: two students on the first day, one on the second.
C6_Witness ==
  /\ outcome = "success"
  /\ Len(per_day) = 2
  /\ per_day[1].PresentCount = 2
  /\ per_day[2].PresentCount = 1

Abs(x) == IF x < 0 THEN -x ELSE x

\* C7: every summary row has DaysPresent <= TotalClassDays and an
\* AttendancePercent between 0 and 100, TotalClassDays being the number of
\* class dates of the daily records and AttendancePercent the tenth of a
\* percent nearest to DaysPresent / TotalClassDays * 100.
C7_SummaryWithinBounds ==
  outcome = "success" =>
    \A i \in 1..Len(student_summary) :
      LET r == student_summary[i]
      IN  /\ r.TotalClassDays = Cardinality(Values(Column(daily, "ClassDate")))
          /\ 1 <= r.DaysPresent
          /\ r.DaysPresent <= r.TotalClassDays
          /\ 0 <= r.AttendancePercent
          /\ r.AttendancePercent <= 1000
          /\ 2 * Abs(r.AttendancePercent * r.TotalClassDays - 1000 * r.DaysPresent)
               <= r.TotalClassDays

\* C7 witness: of two class days one student attended both, another one.
C7_Witness ==
  /\ outcome = "success"
  /\ Len(student_summary) = 2
  /\ \E i, j \in 1..2 :
       /\ student_summary[i].DaysPresent = 2
       /\ student_summary[i].AttendancePercent = 1000
       /\ student_summary[j].DaysPresent = 1
       /\ student_summary[j].TotalClassDays = 2
       /\ student_summary[j].AttendancePercent = 500

\* C8: a row whose time is no date-time is dropped and nothing else: the
\* combined frame is the rows with a date-time, in order; no sheet holds a
\* missing time; a run whose rows all have an identity succeeds exactly when
\* a row with a date-time remains, and fails for lack of data otherwise.
C8_UnparseableTimeDroppedSilently ==
  /\ outcome = "success" =>
       /\ \A kept \in {ParseableRows} :
            Column(df, "SubmissionDateTime_ET") =
              [i \in 1..Len(kept) |-> TimeOf(kept[i])]
       /\ \A i \in 1..Len(daily) : IsDateTime(daily[i].SubmissionDateTime_ET)
       /\ \A i \in 1..Len(daily_attendance) :
            IsDateTime(daily_attendance[i].SubmissionDateTime_ET)
       /\ \A i \in 1..Len(most_recent_sheet) :
            IsDateTime(most_recent_sheet[i].SubmissionDateTime_ET)
       /\ \A i \in 1..Len(status_report) :
            IsDateTime(status_report[i].SubmissionDateTime_ET)
       /\ \A i \in 1..Len(per_day) : IsDateTime(per_day[i].ClassDate)
       /\ \A i \in 1..Len(student_summary) : IsDateTime(student_summary[i].LastSeen)
  /\ (outcome = "error" /\ error.file = NoFile) =>
       /\ ParseableRows = <<>>
       /\ error.kind = "No valid attendance records found"
       /\ AllSheetsEmpty
  /\ ( /\ outcome # "none"
       /\ \A r \in Values(RawRows) :
            RowHasIdentity(r) /\ TimeColumnOf(r.columns) # None )
     => (outcome = "success" <=> ParseableRows # <<>>)

\* C8 witness: a successful run over two files with a row that has no
\* date-time; the row is in no sheet.
C8_Witness ==
  /\ outcome = "success"
  /\ Len(uploaded_files) = 2
  /\ \E i \in 1..Len(RawRows) : TimeOf(RawRows[i]) = JunkTime
  /\ Len(df) = Len(RawRows) - 1
  /\ Len(daily) = Len(df)

\* C9: deduplicating the deduplicated frame changes nothing.
C9_DeduplicateIdempotent ==
  /\ outcome = "success" => Deduplicate(daily) = daily
  /\ Deduplicate(Deduplicate(df)) = Deduplicate(df)

\* C9 witness: a run whose deduplication collapsed rows and kept several.
C9_Witness ==
  /\ outcome = "success"
  /\ Len(daily) < Len(df)
  /\ Len(daily) >= 2

=============================================================================
